---- MODULE Spec2Model ----
(***************************************************************************)
(* Model of src/financials.py: class xirr_second_derivative.               *)
(*                                                                         *)
(*   xnpv, eir_derivative_func, eir_second_derivative_func are pure        *)
(*   functions of (rate, cashflows); xirr is the solver driver: two        *)
(*   precondition checks, then a loop over guess_list that calls           *)
(*   scipy.optimize.newton once per guess inside try/except.               *)
(*                                                                         *)
(* Numbers.  A rate is an integer k standing for k / RateDen.  A money     *)
(* value (amount, discounted term, npv) is an integer in units of          *)
(* 1 / ValScale, rounded after every floating-point operation to 7        *)
(* significant decimal digits (Fl), the way Python rounds every float      *)
(* operation to 53 significant bits.  (1 + rate) ** x is computed to       *)
(* 1 / PowScale by the binomial series, which converges for |rate| < 1.    *)
(* Dates are <<year, month, day>>; their difference in days follows        *)
(* datetime.date (proleptic Gregorian ordinals).                           *)
(***************************************************************************)
EXTENDS Integers, Sequences, FiniteSets, TLC

-----------------------------------------------------------------------------
(* Bounds of the model *)

\* longest series passed to xirr
MaxLen == 2
\* longest series whose permutations are evaluated by xnpv
MaxPermLen == 3
\* candidate rates (in 1 / RateDen) at which a zero of xnpv is looked for
RateLo == 450
RateHi == 1050

\* one basis point: rate k stands for k / 10000
RateDen == 10 ^ 4
\* fixed-point scale of (1 + rate) ** x
PowScale == 10 ^ 8
\* money values are kept in units of 1 / 10000
ValScale == 10 ^ 4
\* 10 ^ (significant decimal digits kept by a float operation)
SigLimit == 10 ^ 7
\* the binomial series stops when its term vanishes, at the latest here
MaxTerms == 40

Abs(x) == IF x < 0 THEN -x ELSE x
Sgn(x) == IF x > 0 THEN 1 ELSE IF x < 0 THEN -1 ELSE 0

-----------------------------------------------------------------------------
(* Arithmetic *)

\* floor(x * n / d) for naturals, without forming x * n
MulDivNat(x, n, d) == (x \div d) * n + ((x % d) * n) \div d

\* x * n / d, truncated toward zero; d > 0
MulDiv(x, n, d) == Sgn(x) * Sgn(n) * MulDivNat(Abs(x), Abs(n), d)

\* x / 10 rounded half to even, x a natural
RoundDiv10(x) ==
    LET q == x \div 10
        r == x % 10
    IN  IF r > 5 \/ (r = 5 /\ q % 2 = 1) THEN q + 1 ELSE q

RECURSIVE FlNat(_)
FlNat(x) == IF x < SigLimit THEN x ELSE 10 * FlNat(RoundDiv10(x))

\* the result of a float operation: x rounded to the significant digits kept
Fl(x) == Sgn(x) * FlNat(Abs(x))

\* sum of the binomial series of (1 + k/RateDen) ** (num/365) from term j + 1 on,
\* added to acc; term is the j-th term
RECURSIVE PowSeries(_, _, _, _, _)
PowSeries(term, j, k, num, acc) ==
    IF term = 0 \/ j = MaxTerms THEN acc
    ELSE LET next == MulDiv(MulDiv(term, k, RateDen), num - 365 * j, 365 * (j + 1))
         IN  PowSeries(next, j + 1, k, num, acc + next)

\* (1 + k / RateDen) ** (num / 365.0), in units of 1 / PowScale
Pow(k, num) == PowSeries(PowScale, 0, k, num, PowScale)

\* a / p for an integer amount a and p in units of 1 / PowScale: long division
\* to 1 / ValScale, then rounded as a float
FloatDiv(a, p) ==
    LET p6 == (p + 50) \div 100
        n  == Abs(a) * 1000000
        q  == n \div p6
        r1 == n % p6
        f  == (r1 * 1000) \div p6
        r2 == (r1 * 1000) % p6
        g  == (r2 * 10) \div p6
    IN  Fl(Sgn(a) * (q * ValScale + f * 10 + g))

-----------------------------------------------------------------------------
(* Dates: datetime.date as <<year, month, day>> *)

IsLeap(y) == y % 4 = 0 /\ (y % 100 # 0 \/ y % 400 = 0)

DaysBeforeYear(y) ==
    LET p == y - 1 IN p * 365 + p \div 4 - p \div 100 + p \div 400

DaysBeforeMonth(y, m) ==
    <<0, 31, 59, 90, 120, 151, 181, 212, 243, 273, 304, 334>>[m]
    + (IF m > 2 /\ IsLeap(y) THEN 1 ELSE 0)

\* date.toordinal()
Ordinal(t) == DaysBeforeYear(t[1]) + DaysBeforeMonth(t[1], t[2]) + t[3]

\* a day count that takes every year for 365 days
DaysNoLeap(t, t0) ==
    (t[1] - t0[1]) * 365
    + (DaysBeforeMonth(1, t[2]) + t[3]) - (DaysBeforeMonth(1, t0[2]) + t0[3])

\* (t - t0).days
Days(t, t0) == Ordinal(t) - Ordinal(t0)

\* t < u on dates
DateLess(t, u) == Ordinal(t) < Ordinal(u)

-----------------------------------------------------------------------------
(* xnpv *)

\* s with e inserted after every entry whose date is not later than e's
RECURSIVE InsertByDate(_, _)
InsertByDate(s, e) ==
    IF s = << >> THEN <<e>>
    ELSE IF DateLess(e[1], Head(s)[1]) THEN <<e>> \o s
    ELSE <<Head(s)>> \o InsertByDate(Tail(s), e)

\* the list as passed, the sort left out
NotSorted(cf) == cf

\* sorted(cashflows, key=lambda x: x[0]): ascending by date, stable
RECURSIVE SortedByDate(_)
SortedByDate(cf) ==
    IF cf = << >> THEN << >>
    ELSE InsertByDate(SortedByDate(SubSeq(cf, 1, Len(cf) - 1)), cf[Len(cf)])

\* the reference date of xnpv
XnpvT0(cf) == SortedByDate(cf)[1][1]

\* one discounted flow: t[1] / (1 + rate) ** ((t[0] - t0).days / 365.0)
Discounted(rate, t, t0) == FloatDiv(t[2], Pow(rate, Days(t[1], t0)))

\* sum(list) of floats: left to right from 0, every addition rounded
RECURSIVE FloatSum(_, _)
FloatSum(terms, acc) ==
    IF terms = << >> THEN acc
    ELSE FloatSum(Tail(terms), Fl(acc + Head(terms)))

xnpv(rate, cf) ==
    LET chron_order == SortedByDate(cf)
        t0 == chron_order[1][1]
    IN  FloatSum([i \in 1..Len(chron_order) |->
                     Discounted(rate, chron_order[i], t0)], 0)

-----------------------------------------------------------------------------
(* eir_derivative_func, eir_second_derivative_func *)

\* x * p / PowScale for a money value x and p in units of 1 / PowScale,
\* truncated toward zero, without forming x * p
MulPow(x, p) ==
    Sgn(x) * ( MulDivNat(Abs(x), p \div 10000, 10000)
             + MulDivNat(Abs(x), p % 10000, 10000) \div 10000 )

\* the earliest date of the list, whatever its order
DerivT0Earliest(cash_flow) ==
    LET ds == { cash_flow[i][1] : i \in 1..Len(cash_flow) }
    IN  CHOOSE d \in ds : \A e \in ds : ~DateLess(e, d)

\* the reference date of both derivative functions: dates[0], the date of the
\* first element of the list as passed
DerivT0(cash_flow) == cash_flow[1][1]

\* cf * n, n = -d.days / 365.
TimesN(cf, days) == Fl(MulDiv(cf * ValScale, -days, 365))

\* sum of cf * n * (rate + 1) ** (n - 1)
eir_derivative_func(r, cash_flow) ==
    LET t0 == DerivT0(cash_flow)
        dcf == [i \in 1..Len(cash_flow) |->
                  LET days == Days(cash_flow[i][1], t0)
                  IN  Fl(MulPow(TimesN(cash_flow[i][2], days),
                                Pow(r, -days - 365)))]
    IN  FloatSum(dcf, 0)

\* sum of cf * n * (n - 1) * (rate + 1) ** (n - 2)
eir_second_derivative_func(r, cash_flow) ==
    LET t0 == DerivT0(cash_flow)
        dcf == [i \in 1..Len(cash_flow) |->
                  LET days == Days(cash_flow[i][1], t0)
                      cfn  == TimesN(cash_flow[i][2], days)
                      cfnn == Fl(MulDiv(cfn, -days - 365, 365))
                  IN  Fl(MulPow(cfnn, Pow(r, -days - 730)))]
    IN  FloatSum(dcf, 0)

-----------------------------------------------------------------------------
(* Inputs *)

Dates == { <<2020, 1, 1>>, <<2021, 1, 1>>, <<2022, 1, 1>> }
Amounts == { -1000, 0, 1100 }
CashFlow == Dates \X Amounts

\* the series passed to xirr
SeriesUpTo(n) == UNION { [1..m -> CashFlow] : m \in 0..n }

\* the series the pure functions are applied to
PureDates == { <<2020, 1, 1>>, <<2021, 1, 1>> }
PureSeriesUpTo(n) == UNION { [1..m -> PureDates \X Amounts] : m \in 1..n }

\* rates at which the pure functions are evaluated
Rates == { 500, 1000 }

Perms(n) == { p \in [1..n -> 1..n] : \A i, j \in 1..n : p[i] = p[j] => i = j }

-----------------------------------------------------------------------------
(* xirr *)

\* np.arange(start, stop, step), in tenths
np_arange(start, stop, step) ==
    [n \in 1..((stop - start + step - 1) \div step) |-> start + (n - 1) * step]

\* [x for x in np.arange(0.1, 1, 0.1) for x in (x, -x)], in tenths
guess_list ==
    LET xs == np_arange(1, 10, 1)
    IN  [j \in 1..(2 * Len(xs)) |->
            IF j % 2 = 1 THEN xs[(j + 1) \div 2] ELSE -xs[j \div 2]]

\* values xirr can hold or return
NaN     == [kind |-> "nan", re |-> 0, im |-> 0]
None    == [kind |-> "None", re |-> 0, im |-> 0]
Pending == [kind |-> "pending", re |-> 0, im |-> 0]
Float(k) == [kind |-> "float", re |-> k, im |-> 0]
Complex(k, m) == [kind |-> "complex", re |-> k, im |-> m]

NoDate == <<0, 0, 0>>
NoT0 == [xnpv |-> NoDate, fprime |-> NoDate, fprime2 |-> NoDate]

\* np.sign
np_sign(x) == Sgn(x)

\* the keys with the zero signs kept
unique_sign_all(cf) == { np_sign(cf[i][2]) : i \in 1..Len(cf) }

\* dict.fromkeys([i for i in sign_list if i != 0]): its keys
unique_sign_non_zero(cf) ==
    LET sign_list == [i \in 1..Len(cf) |-> np_sign(cf[i][2])]
    IN  { sign_list[i] : i \in { j \in 1..Len(cf) : sign_list[j] # 0 } }

\* rate k is a zero of xnpv to the resolution of the rate grid: xnpv vanishes
\* at k or changes sign between k and k + 1
IsZero(k, cf) ==
    LET a == xnpv(k, cf)
        b == xnpv(k + 1, cf)
    IN  a = 0 \/ (a > 0 /\ b < 0) \/ (a < 0 /\ b > 0)

\* the zeros of xnpv among the candidate rates
ZeroSet(cf) == { k \in RateLo..RateHi : IsZero(k, cf) }

\* the real roots optimize.newton can converge to: the zeros of xnpv, which a
\* series without flows of both signs has none of (unless all flows are 0)
RealRoots(cf) ==
    IF (\E i \in 1..Len(cf) : cf[i][2] > 0) /\ (\E i \in 1..Len(cf) : cf[i][2] < 0)
    THEN ZeroSet(cf)
    ELSE {}

\* isinstance(x, complex), as the int a bool is
isinstance_complex(x) == IF x.kind = "complex" THEN 1 ELSE 0

\* ~b on an int
Invert(b) == -b - 1

\* truth value of an int
Truthy(n) == n # 0

\* o[0] if ~isinstance(o[0], complex) else np.nan
ReturnValue(x) == IF Truthy(Invert(isinstance_complex(x))) THEN x ELSE NaN

\* who can raise inside a guess attempt
Raisers == { "newton", "xnpv", "fprime", "fprime2" }

VARIABLES
    cashflows,    \* the series: a sequence of <<date, amount>>
    pc,           \* "call", "loop", "done" in xirr; "pure" outside it
    gi,           \* position in guess_list of the loop variable i
    o,            \* the roots obtained
    ret,          \* what xirr returned
    raised,       \* an exception left xirr
    attempts,     \* history: the root-find attempts made, in order
    stdout,       \* what was printed
    caught,       \* who raised the exception caught last
    newtonRoots,  \* the real roots optimize.newton can find for cashflows
    t0used,       \* the reference dates the three functions used in an attempt
    rate,         \* argument of the pure functions
    permuted,     \* a permutation of cashflows
    value         \* results of the pure functions

vars == <<cashflows, pc, gi, o, ret, raised, attempts, stdout, caught,
          newtonRoots, t0used, rate, permuted, value>>

xirrVars == <<gi, o, ret, raised, attempts, stdout, caught, t0used>>
pureVars == <<rate, permuted, value>>

NoValue == [xnpv |-> 0, xnpvPermuted |-> 0, fprime |-> 0, fprime2 |-> 0,
            t0 |-> NoT0]

XirrIdle ==
    /\ gi = 0
    /\ o = << >>
    /\ ret = Pending
    /\ raised = FALSE
    /\ attempts = << >>
    /\ stdout = << >>
    /\ caught = "none"
    /\ t0used = NoT0

PureIdle ==
    /\ rate = 0
    /\ permuted = << >>
    /\ value = NoValue

Init ==
    /\ cashflows \in SeriesUpTo(MaxLen)
    /\ newtonRoots = RealRoots(cashflows)
    /\ pc = "call"
    /\ XirrIdle
    /\ PureIdle

\* if len(cashflows) < 2: return np.nan
TooShort ==
    /\ pc = "call"
    /\ Len(cashflows) < 2
    /\ ret' = NaN
    /\ pc' = "done"
    /\ UNCHANGED <<cashflows, gi, o, raised, attempts, stdout, caught,
                   newtonRoots, t0used, pureVars>>

\* if len(unique_sign_non_zero) < 2: return np.nan
NoSignChange ==
    /\ pc = "call"
    /\ ~(Len(cashflows) < 2)
    /\ Cardinality(unique_sign_non_zero(cashflows)) < 2
    /\ ret' = NaN
    /\ pc' = "done"
    /\ UNCHANGED <<cashflows, gi, o, raised, attempts, stdout, caught,
                   newtonRoots, t0used, pureVars>>

\* both checks passed: o = [], the loop starts at the first guess
EnterLoop ==
    /\ pc = "call"
    /\ ~(Len(cashflows) < 2)
    /\ ~(Cardinality(unique_sign_non_zero(cashflows)) < 2)
    /\ o' = << >>
    /\ gi' = 1
    /\ pc' = "loop"
    /\ UNCHANGED <<cashflows, ret, raised, attempts, stdout, caught,
                   newtonRoots, t0used, pureVars>>

\* only a second root ends the search
FoundTwo(oo) == Len(oo) = 2

\* len(o) == 1
Found(oo) == Len(oo) = 1

\* the reference dates of the three lambdas handed to optimize.newton
LambdaT0 ==
    [xnpv |-> XnpvT0(cashflows), fprime |-> DerivT0(cashflows),
     fprime2 |-> DerivT0(cashflows)]

\* a guess is taken and len(o) == 1: return
ReturnRoot ==
    /\ pc = "loop"
    /\ gi <= Len(guess_list)
    /\ Found(o)
    /\ ret' = ReturnValue(o[1])
    /\ pc' = "done"
    /\ UNCHANGED <<cashflows, gi, o, raised, attempts, stdout, caught,
                   newtonRoots, t0used, pureVars>>

\* else branch, optimize.newton returns root x: print(i); o.append(x)
Converges(x) ==
    /\ pc = "loop"
    /\ gi <= Len(guess_list)
    /\ ~Found(o)
    /\ stdout' = Append(stdout, guess_list[gi])
    /\ o' = Append(o, x)
    /\ attempts' = Append(attempts, [guess |-> guess_list[gi], ok |-> TRUE, root |-> x])
    /\ t0used' = LambdaT0
    /\ gi' = gi + 1
    /\ UNCHANGED <<cashflows, pc, ret, raised, caught, newtonRoots, pureVars>>

NewtonConvergesReal == \E k \in newtonRoots : Converges(Float(k))

NewtonConvergesComplex == \E k \in newtonRoots \cup {0} : Converges(Complex(k, 1))

\* the attempt raises and nothing catches it
NewtonRaisesUncaught ==
    /\ pc = "loop"
    /\ gi <= Len(guess_list)
    /\ ~Found(o)
    /\ stdout' = Append(stdout, guess_list[gi])
    /\ attempts' = Append(attempts, [guess |-> guess_list[gi], ok |-> FALSE, root |-> None])
    /\ t0used' = LambdaT0
    /\ \E who \in Raisers : caught' = who
    /\ raised' = TRUE
    /\ pc' = "done"
    /\ UNCHANGED <<cashflows, gi, o, ret, newtonRoots, pureVars>>

\* else branch, the attempt raises: print(i), then except: pass
NewtonRaises ==
    /\ pc = "loop"
    /\ gi <= Len(guess_list)
    /\ ~Found(o)
    /\ stdout' = Append(stdout, guess_list[gi])
    /\ attempts' = Append(attempts, [guess |-> guess_list[gi], ok |-> FALSE, root |-> None])
    /\ t0used' = LambdaT0
    /\ \E who \in Raisers : caught' = who
    /\ gi' = gi + 1
    /\ UNCHANGED <<cashflows, pc, o, ret, raised, newtonRoots, pureVars>>

\* guess_list is exhausted: the function ends without a return statement
LoopExhausted ==
    /\ pc = "loop"
    /\ gi > Len(guess_list)
    /\ ret' = None
    /\ pc' = "done"
    /\ UNCHANGED <<cashflows, gi, o, raised, attempts, stdout, caught,
                   newtonRoots, t0used, pureVars>>

Next ==
    \/ TooShort
    \/ NoSignChange
    \/ EnterLoop
    \/ ReturnRoot
    \/ NewtonConvergesReal
    \/ NewtonConvergesComplex
    \/ NewtonRaises
    \/ LoopExhausted

Spec == Init /\ [][Next]_vars

\* xirr runs to completion: no step waits on anything
LiveSpec == Spec /\ WF_vars(Next)

-----------------------------------------------------------------------------
(* The pure functions, applied to drawn inputs *)

InitPure ==
    /\ cashflows \in PureSeriesUpTo(MaxPermLen)
    /\ rate \in Rates
    /\ pc = "pure"
    /\ newtonRoots = {}
    /\ XirrIdle
    /\ permuted = << >>
    /\ value = NoValue

\* xnpv(rate, cashflows) and xnpv(rate, a permutation of cashflows)
EvalXnpv ==
    /\ pc = "pure"
    /\ permuted = << >>
    /\ \E p \in Perms(Len(cashflows)) :
          LET q == [i \in 1..Len(cashflows) |-> cashflows[p[i]]]
          IN  /\ permuted' = q
              /\ value' = [value EXCEPT !.xnpv = xnpv(rate, cashflows),
                                        !.xnpvPermuted = xnpv(rate, q)]
    /\ UNCHANGED <<cashflows, pc, rate, newtonRoots, xirrVars>>

\* the derivative functions on the permutation
EvalDerivatives ==
    /\ pc = "pure"
    /\ permuted # << >>
    /\ value.t0 = NoT0
    /\ value' = [value EXCEPT !.fprime = eir_derivative_func(rate, permuted),
                              !.fprime2 = eir_second_derivative_func(rate, permuted),
                              !.t0 = [xnpv |-> XnpvT0(permuted),
                                      fprime |-> DerivT0(permuted),
                                      fprime2 |-> DerivT0(permuted)]]
    /\ UNCHANGED <<cashflows, pc, rate, permuted, newtonRoots, xirrVars>>

NextPure == EvalXnpv \/ EvalDerivatives

SpecPure == InitPure /\ [][NextPure]_vars

-----------------------------------------------------------------------------
(* Claims *)

\* the attempts that obtained a root
Successes == { j \in 1..Len(attempts) : attempts[j].ok }

\* the root of the earliest successful attempt
FirstRoot == attempts[CHOOSE j \in Successes : \A h \in Successes : j <= h].root

\* the guess schedule as the specification words it, in tenths
Schedule == <<1, -1, 2, -2, 3, -3, 4, -4, 5, -5, 6, -6, 7, -7, 8, -8, 9, -9>>

\* a series the precondition checks must reject
Malformed(cf) ==
    \/ Len(cf) < 2
    \/ ~( /\ \E i \in 1..Len(cf) : cf[i][2] > 0
          /\ \E i \in 1..Len(cf) : cf[i][2] < 0 )

\* C1: once xirr has returned and some attempt succeeded, the value returned
\* is the root of the earliest successful attempt, at whichever of the 18
\* positions that attempt was made.  (Stated for real roots; a complex root
\* is the case of C4.)
C1_ReturnsEarliestRoot ==
    (pc = "done" /\ Successes # {} /\ FirstRoot.kind = "float")
        => ret = FirstRoot

\* C2: when all 18 attempts failed, xirr returns the failure sentinel
\* (not-a-number).
C2_AllFailReturnsNaN ==
    (pc = "done" /\ Len(attempts) = 18 /\ Successes = {}) => ret = NaN

\* C3: a series with fewer than 2 entries, or without both a strictly positive
\* and a strictly negative amount, makes xirr return the failure sentinel at
\* once: the loop is never entered and no attempt is made.
C3_MalformedFailsFast ==
    Malformed(cashflows) =>
        /\ pc # "loop"
        /\ attempts = << >>
        /\ (pc = "done" => ret = NaN)

C3_Witness ==
    /\ pc = "done"
    /\ Len(cashflows) = 2
    /\ \E i \in 1..2 : cashflows[i][2] = 0
    /\ \E i \in 1..2 : cashflows[i][2] < 0
    /\ ret = NaN

\* C4: when the first successful attempt yields a complex root, xirr returns
\* the failure sentinel, never the complex value.
C4_ComplexRootGivesNaN ==
    (pc = "done" /\ Successes # {} /\ FirstRoot.kind = "complex") => ret = NaN

\* C5: an exception raised in a guess attempt is caught inside xirr: it never
\* leaves xirr, the attempt adds no root, and the next guess of the schedule
\* is attempted.
C5_ExceptionsAreCaught ==
    /\ raised = FALSE
    /\ Len(o) = Cardinality(Successes)
    /\ \A j \in 1..Len(attempts) :
          ~attempts[j].ok =>
             /\ j < Len(attempts) => attempts[j + 1].guess = Schedule[j + 1]
             /\ (pc = "done" /\ j = Len(attempts)) => j = 18

C5_Witness ==
    /\ pc = "done"
    /\ caught # "none"
    /\ Len(attempts) >= 2
    /\ ~attempts[1].ok
    /\ ret.kind = "float"

Scenario1 == << << <<2020, 1, 1>>, -1000 >>, << <<2021, 1, 1>>, 1100 >> >>

\* a root in [k, k + 1] / 10000 lies within 1e-4 of c / 10000
Within1e4(k, c) == c - 1 <= k /\ k + 1 <= c + 1

\* C6 as stated: for the cashflows (2020-01-01, -1000), (2021-01-01, 1100)
\* the rate xirr returns, a zero of xnpv, is within 1e-4 of 0.10.
C6_Scenario1Near10Percent ==
    (pc = "done" /\ cashflows = Scenario1 /\ ret.kind = "float")
        => Within1e4(ret.re, 1000)

\* C6 as amended: for those cashflows the rate xirr returns, a zero of xnpv,
\* is within 1e-4 of 0.0997: the flows are 366 days apart and the exponent
\* is 366 / 365.
C6_Scenario1Near997 ==
    (pc = "done" /\ cashflows = Scenario1 /\ ret.kind = "float")
        => Within1e4(ret.re, 997)

C6_Witness ==
    /\ pc = "done"
    /\ cashflows = Scenario1
    /\ ret.kind = "float"
    /\ Days(cashflows[2][1], cashflows[1][1]) = 366

\* no two entries of cf carry the same date
DistinctDates(cf) == \A i, j \in 1..Len(cf) : cf[i][1] = cf[j][1] => i = j

\* C7 as stated: xnpv returns the same value for every permutation of the
\* series.
C7_XnpvPermutationInvariant ==
    permuted # << >> => value.xnpv = value.xnpvPermuted

\* C7 as amended: xnpv returns the same value for every permutation of a
\* series whose dates are pairwise distinct.
C7_XnpvPermutationInvariantDistinctDates ==
    (permuted # << >> /\ DistinctDates(cashflows))
        => value.xnpv = value.xnpvPermuted

C7_Witness ==
    /\ permuted # << >>
    /\ permuted # cashflows
    /\ Len(cashflows) = 2
    /\ DistinctDates(cashflows)
    /\ value.xnpv = value.xnpvPermuted
    /\ value.xnpv # 0

\* C8: xirr writes nothing to standard output on any path.
C8_NoOutput == stdout = << >>

\* C9, the safety part: the attempts made are a prefix of the schedule
\* 0.1, -0.1, ..., 0.9, -0.9 (so at most 18, in that order, each guess once)
\* and only the last of them can have obtained a root.
C9_Attempts ==
    /\ Len(attempts) <= 18
    /\ \A j \in 1..Len(attempts) : attempts[j].guess = Schedule[j]
    /\ \A j \in 1..Len(attempts) : attempts[j].ok => j = Len(attempts)

\* C9: every call of xirr terminates, having made at most 18 attempts, in
\* schedule order, each guess at most once, none after a successful one.
C9_TerminatesWithin18 == []C9_Attempts /\ <>(pc = "done")

C9_Witness ==
    /\ pc = "done"
    /\ Len(attempts) = 18
    /\ attempts[18].guess = -9

\* the first element of cf as passed carries the earliest date
FirstIsEarliest(cf) == \A i \in 1..Len(cf) : ~DateLess(cf[i][1], cf[1][1])

\* cf is in ascending date order
Ascending(cf) == \A i, j \in 1..Len(cf) : i < j => ~DateLess(cf[j][1], cf[i][1])

\* the derivative functions used the reference date of xnpv
SharedT0(t0, cf) ==
    /\ (t0.fprime = t0.xnpv /\ t0.fprime2 = t0.xnpv) <=> FirstIsEarliest(cf)
    /\ t0.fprime = t0.fprime2
    /\ Ascending(cf) => (t0.fprime = t0.xnpv /\ t0.fprime2 = t0.xnpv)

\* C10: the reference date of eir_derivative_func and of
\* eir_second_derivative_func equals the reference date of xnpv exactly when
\* the first element as passed carries the earliest date; within xirr the
\* three agree for every series passed in ascending date order.
C10_SharedReferenceDate ==
    /\ attempts # << >> => SharedT0(t0used, cashflows)
    /\ value.t0 # NoT0 => SharedT0(value.t0, permuted)

C10_Witness ==
    /\ attempts # << >>
    /\ ~FirstIsEarliest(cashflows)
    /\ t0used.fprime # t0used.xnpv

\* both the calls of xirr and the applications of the pure functions
SpecBoth == (Init \/ InitPure) /\ [][Next \/ NextPure]_vars
====
